---- MODULE Spec2Model ----
(***************************************************************************)
(* react-native-migration-toolkit: the props adder (add-props.js) and the  *)
(* component analyzer (component-analyzer.js).                             *)
(*                                                                         *)
(* A syntax tree is modelled by the fields the two scripts read: a file is *)
(* [parses, imports, elements], elements in document order (the order in   *)
(* which @babel/traverse visits JSXElement nodes).  An attribute node has  *)
(* the shape the scripts themselves build with t.jsxAttribute: the fields  *)
(* type, name and value.  JS arrays are sequences, JS Maps are functions   *)
(* whose DOMAIN is the key set, JS Sets are sets.                          *)
(***************************************************************************)
EXTENDS Integers, Sequences, FiniteSets, TLC

VARIABLES mode, config, disk, files, idx, pc, stats, found, analysis,
          runs, prevDisk, origDisk

vars == <<mode, config, disk, files, idx, pc, stats, found, analysis,
          runs, prevDisk, origDisk>>

(***************************************************************************)
(* Bounds of the model.                                                    *)
(***************************************************************************)
MaxAttrs == 2
MaxProps == 2
MaxFiles == 3
MaxRuns == 2
MaxUsage == 4

(***************************************************************************)
(* JavaScript values.                                                      *)
(***************************************************************************)
Undefined == "<undefined>"

Truthy(x) == x # Undefined /\ x # ""

JsOr(a, b) == IF Truthy(a) THEN a ELSE b

Includes(arr, x) == \E i \in 1..Len(arr) : arr[i] = x

(* A module path or package name is the sequence of its fragments; the JS  *)
(* string is their concatenation.  The fragments are cut so that one path  *)
(* of the universe is a substring of another exactly when its fragments    *)
(* are a contiguous run of the other's.                                    *)
REACT_NATIVE == <<"react-native">>
REACT_NAVIGATION == <<"@react-navigation">>
REACT_NAVIGATION_NATIVE == <<"@react-navigation", "/native">>
KIT == <<"kit">>
UI_KIT == <<"ui-", "kit">>

StringIncludes(s, sub) ==
    \E i \in 0..(Len(s) - Len(sub)) : SubSeq(s, i + 1, i + Len(sub)) = sub

TagNames ==
    {"TextInput", "Input", "Button", "Card", "NavigationContainer", "div",
     "Modal", "Icons"}

ToLowerCase(s) ==
    CASE s = "TextInput" -> "textinput"
      [] s = "Input" -> "input"
      [] s = "Button" -> "button"
      [] s = "Card" -> "card"
      [] s = "NavigationContainer" -> "navigationcontainer"
      [] s = "Modal" -> "modal"
      [] s = "Icons" -> "icons"
      [] OTHER -> s

PropNames == {"autoComplete", "maxLength", "placeholder"}

PropValues == {"off", "10"}

(* String.prototype.localeCompare on the attribute names of the universe   *)
(* and the empty string: the sign of the difference of their ranks.        *)
LocaleRank(s) ==
    CASE s = "" -> 0
      [] s = "autoComplete" -> 1
      [] s = "maxLength" -> 2
      [] s = "placeholder" -> 3
      [] s = "size" -> 4
      [] s = "style" -> 5

LocaleCompare(a, b) ==
    IF LocaleRank(a) < LocaleRank(b) THEN -1
    ELSE IF LocaleRank(a) > LocaleRank(b) THEN 1 ELSE 0

(***************************************************************************)
(* Syntax-tree nodes (@babel/types builders used by add-props.js).         *)
(***************************************************************************)
StringLiteral(v) == [type |-> "StringLiteral", value |-> v]

JSXExpressionContainer(e) == [type |-> "JSXExpressionContainer", expression |-> e]

JSXIdentifier(n) == [type |-> "JSXIdentifier", name |-> n]

JSXAttribute(n, v) == [type |-> "JSXAttribute", name |-> n, value |-> v]

ImportSpecifier(local) == [type |-> "ImportSpecifier", local |-> local]

ImportDefaultSpecifier(local) == [type |-> "ImportDefaultSpecifier", local |-> local]

ImportNamespaceSpecifier(local) ==
    [type |-> "ImportNamespaceSpecifier", local |-> local]

ImportDeclaration(source, specifiers) == [source |-> source, specifiers |-> specifiers]

JSXElement(name, attributes) == [name |-> name, attributes |-> attributes]

(* The name an attribute carries in the source text: node.name.name.       *)
AttrName(prop) == prop.name.name

AttrNames(props) == [i \in 1..Len(props) |-> AttrName(props[i])]

(***************************************************************************)
(* add-props.js                                                            *)
(***************************************************************************)
HTML_ELEMENTS ==
    {"div", "span", "p", "h1", "h2", "h3", "h4", "h5", "h6",
     "a", "img", "ul", "ol", "li", "table", "tr", "td", "th",
     "form", "input", "button", "label", "select", "option",
     "textarea", "section", "article", "header", "footer", "nav",
     "main", "aside", "figure", "figcaption", "blockquote", "code",
     "pre", "em", "strong", "small", "mark", "del", "ins", "sub", "sup"}

ZeroStats ==
    [filesProcessed |-> 0, filesModified |-> 0, componentsFound |-> 0,
     propsAdded |-> 0, propsUpdated |-> 0, componentsSkipped |-> 0,
     errors |-> <<>>]

(* prop.key?.name || prop.key?.value : optional chaining yields undefined  *)
(* when the node has no key field.                                         *)
PropKey(prop) ==
    IF "key" \in DOMAIN prop
    THEN JsOr(IF "name" \in DOMAIN prop.key THEN prop.key.name ELSE Undefined,
              IF "value" \in DOMAIN prop.key THEN prop.key.value ELSE Undefined)
    ELSE Undefined

(* A field the configuration file does not hold reads as undefined, and    *)
(* calling a method of undefined throws a TypeError.                       *)
HasField(name) == name \in DOMAIN config

isComponentFromTargetPackages_FirstImportOnly(imports, componentName) ==
    \E i \in 1..Len(imports) :
        /\ i = 1
        /\ Includes(imports[i].components, componentName)
        /\ \E p \in 1..Len(config.packages) :
               StringIncludes(imports[i].source, config.packages[p])

isComponentFromTargetPackages(imports, componentName) ==
    \E i \in 1..Len(imports) :
        /\ Includes(imports[i].components, componentName)
        /\ \E p \in 1..Len(config.packages) :
               StringIncludes(imports[i].source, config.packages[p])

shouldProcessComponent_CaseSensitive(componentName, imports) ==
    IF ~Truthy(componentName) THEN FALSE
    ELSE IF componentName \in HTML_ELEMENTS THEN FALSE
    ELSE IF Includes(config.components, componentName) THEN TRUE
    ELSE isComponentFromTargetPackages(imports, componentName)

shouldProcessComponent(componentName, imports) ==
    IF ~Truthy(componentName) THEN FALSE
    ELSE IF ToLowerCase(componentName) \in HTML_ELEMENTS THEN FALSE
    ELSE IF Includes(config.components, componentName) THEN TRUE
    ELSE isComponentFromTargetPackages(imports, componentName)

(* shouldProcessComponent throws: config.components.includes on a missing  *)
(* components field, or config.packages.some on a missing packages field   *)
(* at the first import that holds the name.                                *)
shouldProcessComponentThrows(componentName, imports) ==
    /\ Truthy(componentName)
    /\ ToLowerCase(componentName) \notin HTML_ELEMENTS
    /\ \/ ~HasField("components")
       \/ /\ ~Includes(config.components, componentName)
          /\ ~HasField("packages")
          /\ \E i \in 1..Len(imports) : Includes(imports[i].components, componentName)

(* Array.prototype.sort with a comparator is stable: insertion of each     *)
(* element after the last one that does not compare greater.               *)
SortKey(prop) == JsOr(PropKey(prop), "")

RECURSIVE InsertSorted(_, _)
InsertSorted(sorted, prop) ==
    IF sorted = <<>> THEN <<prop>>
    ELSE IF LocaleCompare(SortKey(sorted[Len(sorted)]), SortKey(prop)) <= 0
         THEN Append(sorted, prop)
         ELSE Append(InsertSorted(SubSeq(sorted, 1, Len(sorted) - 1), prop),
                     sorted[Len(sorted)])

RECURSIVE sortPropsAlphabetically(_)
sortPropsAlphabetically(props) ==
    IF props = <<>> THEN <<>>
    ELSE InsertSorted(sortPropsAlphabetically(SubSeq(props, 1, Len(props) - 1)),
                      props[Len(props)])

hasProp(props, propName) ==
    \E i \in 1..Len(props) : PropKey(props[i]) = propName

(* Returns the attribute list after the update and whether a prop matched. *)
updatePropValue(props, propName, newValue) ==
    IF \E i \in 1..Len(props) : PropKey(props[i]) = propName
    THEN LET k == CHOOSE i \in 1..Len(props) :
                      /\ PropKey(props[i]) = propName
                      /\ \A j \in 1..(i - 1) : PropKey(props[j]) # propName
         IN [props |-> [props EXCEPT ![k].value = StringLiteral(newValue)],
             ok |-> TRUE]
    ELSE [props |-> props, ok |-> FALSE]

(* The loop over config.props of addPropsToComponent, from directive i on; *)
(* acc = [props, stats, hasChanges].                                       *)
RECURSIVE ProcessProps(_, _)
ProcessProps(acc, i) ==
    IF i > Len(config.props) THEN acc
    ELSE LET propName == config.props[i].name
             propValue == config.props[i].value
         IN IF hasProp(acc.props, propName)
            THEN IF config.updateExisting
                 THEN LET u == updatePropValue(acc.props, propName, propValue)
                      IN IF u.ok
                         THEN ProcessProps(
                                [props |-> u.props,
                                 stats |-> [acc.stats EXCEPT !.propsUpdated = @ + 1],
                                 hasChanges |-> TRUE], i + 1)
                         ELSE ProcessProps(acc, i + 1)
                 ELSE ProcessProps(
                        [acc EXCEPT !.stats.componentsSkipped = @ + 1], i + 1)
            ELSE ProcessProps(
                   [props |-> Append(acc.props,
                                JSXAttribute(JSXIdentifier(propName),
                                  JSXExpressionContainer(StringLiteral(propValue)))),
                    stats |-> [acc.stats EXCEPT !.propsAdded = @ + 1],
                    hasChanges |-> TRUE], i + 1)

addPropsToComponent_FoundNotCounted(jsxElement, imports, st) ==
    IF shouldProcessComponentThrows(jsxElement.name, imports)
    THEN [element |-> jsxElement, stats |-> st, hasChanges |-> FALSE,
          inScope |-> FALSE, thrown |-> TRUE]
    ELSE IF ~shouldProcessComponent(jsxElement.name, imports)
    THEN [element |-> jsxElement, stats |-> st, hasChanges |-> FALSE,
          inScope |-> FALSE, thrown |-> FALSE]
    ELSE IF ~HasField("props")
    THEN [element |-> jsxElement, stats |-> st,
          hasChanges |-> FALSE, inScope |-> TRUE, thrown |-> TRUE]
    ELSE LET r == ProcessProps(
                    [props |-> jsxElement.attributes, stats |-> st,
                     hasChanges |-> FALSE], 1)
         IN [element |-> [jsxElement EXCEPT !.attributes =
                            IF r.hasChanges THEN sortPropsAlphabetically(r.props)
                            ELSE r.props],
             stats |-> r.stats, hasChanges |-> r.hasChanges, inScope |-> TRUE,
             thrown |-> FALSE]

addPropsToComponent_ScopeDependsOnStats(jsxElement, imports, st) ==
    IF shouldProcessComponentThrows(jsxElement.name, imports)
    THEN [element |-> jsxElement, stats |-> st, hasChanges |-> FALSE,
          inScope |-> FALSE, thrown |-> TRUE]
    ELSE IF ~shouldProcessComponent(jsxElement.name, imports) \/ st.componentsFound >= 2
    THEN [element |-> jsxElement, stats |-> st, hasChanges |-> FALSE,
          inScope |-> FALSE, thrown |-> FALSE]
    ELSE IF ~HasField("props")
    THEN [element |-> jsxElement,
          stats |-> [st EXCEPT !.componentsFound = @ + 1],
          hasChanges |-> FALSE, inScope |-> TRUE, thrown |-> TRUE]
    ELSE LET r == ProcessProps(
                    [props |-> jsxElement.attributes,
                     stats |-> [st EXCEPT !.componentsFound = @ + 1],
                     hasChanges |-> FALSE], 1)
         IN [element |-> [jsxElement EXCEPT !.attributes =
                            IF r.hasChanges THEN sortPropsAlphabetically(r.props)
                            ELSE r.props],
             stats |-> r.stats, hasChanges |-> r.hasChanges, inScope |-> TRUE,
             thrown |-> FALSE]

addPropsToComponent_ExistingPropsDropped(jsxElement, imports, st) ==
    IF shouldProcessComponentThrows(jsxElement.name, imports)
    THEN [element |-> jsxElement, stats |-> st, hasChanges |-> FALSE,
          inScope |-> FALSE, thrown |-> TRUE]
    ELSE IF ~shouldProcessComponent(jsxElement.name, imports)
    THEN [element |-> jsxElement, stats |-> st, hasChanges |-> FALSE,
          inScope |-> FALSE, thrown |-> FALSE]
    ELSE IF ~HasField("props")
    THEN [element |-> jsxElement,
          stats |-> [st EXCEPT !.componentsFound = @ + 1],
          hasChanges |-> FALSE, inScope |-> TRUE, thrown |-> TRUE]
    ELSE LET r == ProcessProps(
                    [props |-> <<>>,
                     stats |-> [st EXCEPT !.componentsFound = @ + 1],
                     hasChanges |-> FALSE], 1)
         IN [element |-> [jsxElement EXCEPT !.attributes =
                            IF r.hasChanges THEN sortPropsAlphabetically(r.props)
                            ELSE jsxElement.attributes],
             stats |-> r.stats, hasChanges |-> r.hasChanges, inScope |-> TRUE,
             thrown |-> FALSE]

(* Returns [element, stats, hasChanges, inScope, thrown].                  *)
addPropsToComponent(jsxElement, imports, st) ==
    IF shouldProcessComponentThrows(jsxElement.name, imports)
    THEN [element |-> jsxElement, stats |-> st, hasChanges |-> FALSE,
          inScope |-> FALSE, thrown |-> TRUE]
    ELSE IF ~shouldProcessComponent(jsxElement.name, imports)
    THEN [element |-> jsxElement, stats |-> st, hasChanges |-> FALSE,
          inScope |-> FALSE, thrown |-> FALSE]
    ELSE IF ~HasField("props")
    THEN [element |-> jsxElement,
          stats |-> [st EXCEPT !.componentsFound = @ + 1],
          hasChanges |-> FALSE, inScope |-> TRUE, thrown |-> TRUE]
    ELSE LET r == ProcessProps(
                    [props |-> jsxElement.attributes,
                     stats |-> [st EXCEPT !.componentsFound = @ + 1],
                     hasChanges |-> FALSE], 1)
         IN [element |-> [jsxElement EXCEPT !.attributes =
                            IF r.hasChanges THEN sortPropsAlphabetically(r.props)
                            ELSE r.props],
             stats |-> r.stats, hasChanges |-> r.hasChanges, inScope |-> TRUE,
             thrown |-> FALSE]

SpecifierNames_EverySpecifier(specifiers) ==
    [i \in 1..Len(specifiers) |-> specifiers[i].local]

(* The local names of the named (ImportSpecifier) bindings of a declaration *)
SpecifierNames(specifiers) ==
    LET keep == SelectSeq(specifiers, LAMBDA s : s.type = "ImportSpecifier")
    IN [i \in 1..Len(keep) |-> keep[i].local]

(* First traversal of processFile: the import table of the file.           *)
RECURSIVE CollectImports(_, _)
CollectImports(decls, i) ==
    IF i > Len(decls) THEN <<>>
    ELSE LET components == SpecifierNames(decls[i].specifiers)
         IN (IF Len(components) > 0
             THEN <<[source |-> decls[i].source, components |-> components]>>
             ELSE <<>>) \o CollectImports(decls, i + 1)

(* Second traversal of processFile, from element i on;                     *)
(* acc = [elements, stats, fileModified, found, thrown]; an exception ends *)
(* the traversal.                                                          *)
RECURSIVE TraverseElements(_, _, _, _)
TraverseElements(acc, imports, filePath, i) ==
    IF i > Len(acc.elements) \/ acc.thrown THEN acc
    ELSE LET r == addPropsToComponent(acc.elements[i], imports, acc.stats)
         IN TraverseElements(
              [elements |-> [acc.elements EXCEPT ![i] = r.element],
               stats |-> r.stats,
               fileModified |-> acc.fileModified \/ r.hasChanges,
               found |-> IF r.inScope THEN acc.found \cup {<<filePath, i>>}
                         ELSE acc.found,
               thrown |-> r.thrown],
              imports, filePath, i + 1)

MutProcessFileResult_EveryFileCountedModified(filePath) ==
    LET content == disk[filePath]
    IN IF ~content.parses
       THEN [disk |-> disk,
             stats |-> [stats EXCEPT !.errors = Append(@, filePath)],
             found |-> found]
       ELSE LET imports == CollectImports(content.imports, 1)
                t == TraverseElements(
                       [elements |-> content.elements, stats |-> stats,
                        fileModified |-> FALSE, found |-> found,
                        thrown |-> FALSE],
                       imports, filePath, 1)
            IN IF t.thrown
               THEN [disk |-> disk,
                     stats |-> [t.stats EXCEPT !.errors = Append(@, filePath)],
                     found |-> t.found]
               ELSE
               [disk |-> [disk EXCEPT ![filePath].elements = t.elements],
                stats |-> [t.stats EXCEPT
                             !.filesModified = @ + 1,
                             !.filesProcessed = @ + 1],
                found |-> t.found]

MutProcessFileResult_ImportTableNotReset(filePath) ==
    LET content == disk[filePath]
        RECURSIVE ImportsUpTo(_)
        ImportsUpTo(k) ==
            IF k = 0 THEN <<>>
            ELSE ImportsUpTo(k - 1) \o CollectImports(disk[files[k]].imports, 1)
    IN IF ~content.parses
       THEN [disk |-> disk,
             stats |-> [stats EXCEPT !.errors = Append(@, filePath)],
             found |-> found]
       ELSE LET imports == ImportsUpTo(idx)
                t == TraverseElements(
                       [elements |-> content.elements, stats |-> stats,
                        fileModified |-> FALSE, found |-> found,
                        thrown |-> FALSE],
                       imports, filePath, 1)
            IN IF t.thrown
               THEN [disk |-> disk,
                     stats |-> [t.stats EXCEPT !.errors = Append(@, filePath)],
                     found |-> t.found]
               ELSE
               [disk |-> IF t.fileModified
                         THEN [disk EXCEPT ![filePath].elements = t.elements]
                         ELSE disk,
                stats |-> [t.stats EXCEPT
                             !.filesModified = IF t.fileModified THEN @ + 1 ELSE @,
                             !.filesProcessed = @ + 1],
                found |-> t.found]

(* processFile of add-props.js on the file at path filePath: returns the   *)
(* new disk, stats and found.  A file that does not parse makes parse()    *)
(* throw, a missing configuration field makes the traversal throw; the     *)
(* catch block records the error, the file is not written and the counters *)
(* incremented before the exception stay incremented.                      *)
MutProcessFileResult(filePath) ==
    LET content == disk[filePath]
    IN IF ~content.parses
       THEN [disk |-> disk,
             stats |-> [stats EXCEPT !.errors = Append(@, filePath)],
             found |-> found]
       ELSE LET imports == CollectImports(content.imports, 1)
                t == TraverseElements(
                       [elements |-> content.elements, stats |-> stats,
                        fileModified |-> FALSE, found |-> found,
                        thrown |-> FALSE],
                       imports, filePath, 1)
            IN IF t.thrown
               THEN [disk |-> disk,
                     stats |-> [t.stats EXCEPT !.errors = Append(@, filePath)],
                     found |-> t.found]
               ELSE
               [disk |-> IF t.fileModified
                         THEN [disk EXCEPT ![filePath].elements = t.elements]
                         ELSE disk,
                stats |-> [t.stats EXCEPT
                             !.filesModified = IF t.fileModified THEN @ + 1 ELSE @,
                             !.filesProcessed = @ + 1],
                found |-> t.found]

(***************************************************************************)
(* component-analyzer.js                                                   *)
(***************************************************************************)
EmptyMap == [k \in {} |-> 0]

MapSet(m, k, v) == (k :> v) @@ m

ZeroAnalysis ==
    [summary |-> [totalFiles |-> 0, totalComponents |-> 0, totalUsages |-> 0,
                  packages |-> {}],
     components |-> EmptyMap, files |-> EmptyMap, imports |-> EmptyMap]

getMigrationPriority_StrictlyAbove(usageCount) ==
    IF usageCount > config.priorityThresholds.high THEN "high"
    ELSE IF usageCount > config.priorityThresholds.medium THEN "medium"
    ELSE "low"

getMigrationPriority_MediumTestedFirst(usageCount) ==
    IF usageCount >= config.priorityThresholds.medium THEN "medium"
    ELSE IF usageCount >= config.priorityThresholds.high THEN "high"
    ELSE "low"

getMigrationPriority(usageCount) ==
    IF usageCount >= config.priorityThresholds.high THEN "high"
    ELSE IF usageCount >= config.priorityThresholds.medium THEN "medium"
    ELSE "low"

(* components.forEach(comp => push when not yet included)                  *)
RECURSIVE PushMissing(_, _, _)
PushMissing(arr, components, j) ==
    IF j > Len(components) THEN arr
    ELSE PushMissing(IF Includes(arr, components[j]) THEN arr
                     ELSE Append(arr, components[j]),
                     components, j + 1)

IsTrackedPackage_Substring(source) ==
    \E p \in 1..Len(config.packagesToTrack) :
        StringIncludes(source, config.packagesToTrack[p])

(* config.packagesToTrack.some(pkg => source === pkg)                      *)
IsTrackedPackage(source) ==
    \E p \in 1..Len(config.packagesToTrack) : source = config.packagesToTrack[p]

(* analyzeImports from declaration i on; acc = [fileImports, analysis,     *)
(* thrown]: config.packagesToTrack.some throws when the field is missing.  *)
RECURSIVE analyzeImports(_, _, _)
analyzeImports(acc, decls, i) ==
    IF i > Len(decls) \/ acc.thrown THEN acc
    ELSE IF ~HasField("packagesToTrack") THEN [acc EXCEPT !.thrown = TRUE]
    ELSE LET source == decls[i].source
             components == SpecifierNames(decls[i].specifiers)
             a == acc.analysis
         IN IF IsTrackedPackage(source) /\ Len(components) > 0
            THEN analyzeImports(
                   [fileImports |-> Append(acc.fileImports,
                                      [source |-> source, components |-> components]),
                    analysis |->
                      [a EXCEPT
                         !.summary.packages = @ \cup {source},
                         !.imports = MapSet(@, source,
                                       PushMissing(IF source \in DOMAIN @ THEN @[source]
                                                   ELSE <<>>,
                                                   components, 1))],
                    thrown |-> FALSE],
                   decls, i + 1)
            ELSE analyzeImports(acc, decls, i + 1)

(* fileImports.find(imp => imp.components.includes(componentName)): the   *)
(* position of the first match, 0 standing for undefined.                  *)
FindImport(fileImports, componentName) ==
    IF \E i \in 1..Len(fileImports) : Includes(fileImports[i].components, componentName)
    THEN CHOOSE i \in 1..Len(fileImports) :
             /\ Includes(fileImports[i].components, componentName)
             /\ \A j \in 1..(i - 1) :
                    ~Includes(fileImports[j].components, componentName)
    ELSE 0

NewComponentData(componentName) ==
    [name |-> componentName, totalUsages |-> 0, files |-> EmptyMap,
     packages |-> {}, migrationPriority |-> "low"]

CountUsage_FileCountNotIncremented(acc, componentName, filePath, fileImports) ==
    LET usage == acc.componentUsage
        comps == acc.analysis.components
        old == IF componentName \in DOMAIN comps THEN comps[componentName]
               ELSE NewComponentData(componentName)
        importInfo == FindImport(fileImports, componentName)
        new == [old EXCEPT
                  !.totalUsages = @ + 1,
                  !.files = MapSet(@, filePath, 1),
                  !.packages = IF importInfo # 0
                               THEN @ \cup {fileImports[importInfo].source} ELSE @]
    IN [componentUsage |->
          MapSet(usage, componentName,
            (IF componentName \in DOMAIN usage THEN usage[componentName] ELSE 0) + 1),
        analysis |-> [acc.analysis EXCEPT
                        !.components = MapSet(@, componentName, new)]]

CountUsage_FirstImportOfTable(acc, componentName, filePath, fileImports) ==
    LET usage == acc.componentUsage
        comps == acc.analysis.components
        old == IF componentName \in DOMAIN comps THEN comps[componentName]
               ELSE NewComponentData(componentName)
        new == [old EXCEPT
                  !.totalUsages = @ + 1,
                  !.files = MapSet(@, filePath,
                              (IF filePath \in DOMAIN @ THEN @[filePath] ELSE 0) + 1),
                  !.packages = @ \cup {fileImports[1].source}]
    IN [componentUsage |->
          MapSet(usage, componentName,
            (IF componentName \in DOMAIN usage THEN usage[componentName] ELSE 0) + 1),
        analysis |-> [acc.analysis EXCEPT
                        !.components = MapSet(@, componentName, new)]]

CountUsage_PackagesReplaced(acc, componentName, filePath, fileImports) ==
    LET usage == acc.componentUsage
        comps == acc.analysis.components
        old == IF componentName \in DOMAIN comps THEN comps[componentName]
               ELSE NewComponentData(componentName)
        importInfo == FindImport(fileImports, componentName)
        new == [old EXCEPT
                  !.totalUsages = @ + 1,
                  !.files = MapSet(@, filePath,
                              (IF filePath \in DOMAIN @ THEN @[filePath] ELSE 0) + 1),
                  !.packages = IF importInfo # 0
                               THEN {fileImports[importInfo].source} ELSE @]
    IN [componentUsage |->
          MapSet(usage, componentName,
            (IF componentName \in DOMAIN usage THEN usage[componentName] ELSE 0) + 1),
        analysis |-> [acc.analysis EXCEPT
                        !.components = MapSet(@, componentName, new)]]

(* The body of "if (isTrackedComponent)": count one usage of componentName *)
(* in filePath; acc = [componentUsage, analysis].                          *)
CountUsage(acc, componentName, filePath, fileImports) ==
    LET usage == acc.componentUsage
        comps == acc.analysis.components
        old == IF componentName \in DOMAIN comps THEN comps[componentName]
               ELSE NewComponentData(componentName)
        importInfo == FindImport(fileImports, componentName)
        new == [old EXCEPT
                  !.totalUsages = @ + 1,
                  !.files = MapSet(@, filePath,
                              (IF filePath \in DOMAIN @ THEN @[filePath] ELSE 0) + 1),
                  !.packages = IF importInfo # 0
                               THEN @ \cup {fileImports[importInfo].source} ELSE @]
    IN [componentUsage |->
          MapSet(usage, componentName,
            (IF componentName \in DOMAIN usage THEN usage[componentName] ELSE 0) + 1),
        analysis |-> [acc.analysis EXCEPT
                        !.components = MapSet(@, componentName, new)]]

VisitJSXElement_TrackingNotChecked(acc, componentName, filePath, fileImports) ==
    IF /\ Len(config.componentFilters.include) > 0
       /\ ~Includes(config.componentFilters.include, componentName)
    THEN acc
    ELSE IF Includes(config.componentFilters.exclude, componentName)
    THEN acc
    ELSE CountUsage(acc, componentName, filePath, fileImports)

VisitJSXElement_IncludeNotChecked(acc, componentName, filePath, fileImports) ==
    IF Includes(config.componentFilters.exclude, componentName)
    THEN acc
    ELSE IF \E i \in 1..Len(fileImports) :
                Includes(fileImports[i].components, componentName)
    THEN CountUsage(acc, componentName, filePath, fileImports)
    ELSE acc

VisitJSXElement_IncludeOverridesExclude(acc, componentName, filePath, fileImports) ==
    IF /\ Len(config.componentFilters.include) > 0
       /\ ~Includes(config.componentFilters.include, componentName)
    THEN acc
    ELSE IF /\ Len(config.componentFilters.include) = 0
            /\ Includes(config.componentFilters.exclude, componentName)
    THEN acc
    ELSE IF \E i \in 1..Len(fileImports) :
                Includes(fileImports[i].components, componentName)
    THEN CountUsage(acc, componentName, filePath, fileImports)
    ELSE acc

(* The JSXElement visitor of analyzeJSXUsage applied to one element.       *)
VisitJSXElement(acc, componentName, filePath, fileImports) ==
    IF /\ Len(config.componentFilters.include) > 0
       /\ ~Includes(config.componentFilters.include, componentName)
    THEN acc
    ELSE IF Includes(config.componentFilters.exclude, componentName)
    THEN acc
    ELSE IF \E i \in 1..Len(fileImports) :
                Includes(fileImports[i].components, componentName)
    THEN CountUsage(acc, componentName, filePath, fileImports)
    ELSE acc

(* acc = [componentUsage, analysis, thrown]: the visitor throws on its     *)
(* first element when config.componentFilters is missing.                  *)
RECURSIVE analyzeJSXUsage(_, _, _, _, _)
analyzeJSXUsage(acc, elements, filePath, fileImports, i) ==
    IF i > Len(elements) \/ acc.thrown THEN acc
    ELSE IF ~HasField("componentFilters") THEN [acc EXCEPT !.thrown = TRUE]
    ELSE LET v == VisitJSXElement(
                    [componentUsage |-> acc.componentUsage,
                     analysis |-> acc.analysis],
                    elements[i].name, filePath, fileImports)
         IN analyzeJSXUsage(
              [componentUsage |-> v.componentUsage, analysis |-> v.analysis,
               thrown |-> FALSE],
              elements, filePath, fileImports, i + 1)

SumValues_EntriesCounted(f, S) == Cardinality(S)

RECURSIVE SumValues(_, _)
SumValues(f, S) ==
    IF S = {} THEN 0
    ELSE LET k == CHOOSE x \in S : TRUE
         IN f[k] + SumValues(f, S \ {k})

AnaProcessFileResult_FailedFileCounted(filePath) ==
    IF ~disk[filePath].parses
    THEN [analysis EXCEPT !.summary.totalFiles = @ + 1]
    ELSE LET content == disk[filePath]
             im == analyzeImports([fileImports |-> <<>>, analysis |-> analysis,
                                   thrown |-> FALSE],
                                  content.imports, 1)
             us == analyzeJSXUsage([componentUsage |-> EmptyMap,
                                    analysis |-> im.analysis,
                                    thrown |-> FALSE],
                                   content.elements, filePath, im.fileImports, 1)
         IN [us.analysis EXCEPT
               !.files = MapSet(@, filePath,
                           [path |-> filePath, imports |-> im.fileImports,
                            componentUsage |-> us.componentUsage,
                            totalUsages |-> SumValues(us.componentUsage,
                                                      DOMAIN us.componentUsage)]),
               !.summary.totalFiles = @ + 1]

(* processFile of component-analyzer.js: the analysis after the file.  A   *)
(* file that does not parse makes parse() throw before anything is stored; *)
(* an exception of the JSX visitor leaves what analyzeImports has stored.  *)
AnaProcessFileResult(filePath) ==
    LET content == disk[filePath]
    IN IF ~content.parses THEN analysis
       ELSE LET im == analyzeImports([fileImports |-> <<>>, analysis |-> analysis,
                                      thrown |-> FALSE],
                                     content.imports, 1)
                us == analyzeJSXUsage([componentUsage |-> EmptyMap,
                                       analysis |-> im.analysis,
                                       thrown |-> FALSE],
                                      content.elements, filePath, im.fileImports, 1)
            IN IF im.thrown THEN im.analysis
               ELSE IF us.thrown THEN us.analysis
               ELSE
               [us.analysis EXCEPT
                  !.files = MapSet(@, filePath,
                              [path |-> filePath, imports |-> im.fileImports,
                               componentUsage |-> us.componentUsage,
                               totalUsages |-> SumValues(us.componentUsage,
                                                         DOMAIN us.componentUsage)]),
                  !.summary.totalFiles = @ + 1]

(***************************************************************************)
(* Inputs: the project on disk, the discovered file list, the configuration *)
(***************************************************************************)
Attr(n, v) == JSXAttribute(JSXIdentifier(n), StringLiteral(v))

Named(source, locals) ==
    ImportDeclaration(source, [i \in 1..Len(locals) |-> ImportSpecifier(locals[i])])

SourceFile(imports, elements) ==
    [parses |-> TRUE, imports |-> imports, elements |-> elements]

SyntaxErrorFile == [parses |-> FALSE, imports |-> <<>>, elements |-> <<>>]

Paths == {"A.tsx", "B.tsx", "C.tsx", "D.tsx"}

Project ==
    [p \in Paths |->
       CASE p = "A.tsx" ->
              SourceFile(<<Named(REACT_NATIVE, <<"TextInput", "Button">>)>>,
                         <<JSXElement("TextInput", <<Attr("placeholder", "off")>>),
                           JSXElement("Button", <<>>),
                           JSXElement("div", <<>>),
                           JSXElement("TextInput", <<>>)>>)
         [] p = "B.tsx" ->
              SourceFile(<<Named(REACT_NAVIGATION_NATIVE, <<"NavigationContainer">>),
                           Named(KIT, <<"Input", "Card">>)>>,
                         <<JSXElement("NavigationContainer", <<>>),
                           JSXElement("Input", <<Attr("maxLength", "10")>>),
                           JSXElement("Card", <<>>),
                           JSXElement("TextInput", <<>>)>>)
         [] p = "C.tsx" -> SyntaxErrorFile
         [] p = "D.tsx" ->
              SourceFile(<<Named(UI_KIT, <<"Card">>),
                           ImportDeclaration(REACT_NATIVE,
                             <<ImportDefaultSpecifier("Modal"),
                               ImportSpecifier("TextInput")>>),
                           ImportDeclaration(KIT,
                             <<ImportNamespaceSpecifier("Icons")>>)>>,
                         <<JSXElement("Card", <<>>),
                           JSXElement("TextInput", <<Attr("placeholder", "off")>>),
                           JSXElement("Modal", <<>>),
                           JSXElement("Icons", <<>>)>>)]

(* Sequences without repetition of at most n members of S.                 *)
RECURSIVE DistinctSeqs(_, _)
DistinctSeqs(S, n) ==
    IF n = 0 THEN {<<>>}
    ELSE LET shorter == DistinctSeqs(S, n - 1)
         IN shorter \cup
            {Append(q, x) : q \in {r \in shorter : Len(r) = n - 1},
                            x \in S}

NoRepeat(q) == \A i, j \in 1..Len(q) : i # j => q[i] # q[j]

RECURSIVE SeqsUpTo(_, _)
SeqsUpTo(S, n) ==
    IF n = 0 THEN {<<>>} ELSE SeqsUpTo(S, n - 1) \cup [1..n -> S]

FileLists == {q \in DistinctSeqs(Paths, MaxFiles) : NoRepeat(q)}

NoFilters == [include |-> <<>>, exclude |-> <<>>]

BaseConfig ==
    [components |-> <<>>, packages |-> <<>>, props |-> <<>>,
     updateExisting |-> FALSE, fileExtensions |-> <<"tsx">>,
     packagesToTrack |-> <<>>, priorityThresholds |-> [high |-> 3, medium |-> 2],
     componentFilters |-> NoFilters]

Directive(n, v) == [name |-> n, value |-> v]

MutConfigs ==
    {[BaseConfig EXCEPT !.components = c, !.packages = k, !.props = d,
                        !.updateExisting = u] :
       c \in {<<>>, <<"TextInput", "Input", "Button">>},
       k \in {<<REACT_NATIVE>>, <<REACT_NAVIGATION, KIT>>},
       d \in {<<>>, <<Directive("maxLength", "10"), Directive("autoComplete", "off")>>},
       u \in BOOLEAN}

AnaConfigs ==
    {[BaseConfig EXCEPT !.packagesToTrack = k, !.componentFilters = f,
                        !.priorityThresholds = t] :
       k \in {<<REACT_NATIVE>>, <<REACT_NAVIGATION, KIT>>,
              <<REACT_NATIVE, KIT, UI_KIT>>},
       f \in {NoFilters,
              [include |-> <<"Card", "TextInput">>, exclude |-> <<>>],
              [include |-> <<>>, exclude |-> <<"Card">>],
              [include |-> <<"Card", "TextInput">>, exclude |-> <<"Card">>]},
       t \in {[high |-> 3, medium |-> 2], [high |-> 2, medium |-> 2],
              [high |-> 2, medium |-> 3]}}

(* One file holding one in-scope element: the inputs of the merge.         *)
AttrLists ==
    {[i \in 1..Len(q) |-> Attr(q[i], v[i])] :
       q \in {r \in DistinctSeqs(PropNames, MaxAttrs) : NoRepeat(r)},
       v \in [1..MaxAttrs -> PropValues]}

DirectiveLists ==
    SeqsUpTo({Directive(n, v) : n \in {"autoComplete", "maxLength"},
                                v \in PropValues}, MaxProps)

MergeConfigs ==
    {[BaseConfig EXCEPT !.components = <<"TextInput">>, !.props = d,
                        !.updateExisting = u] :
       d \in DirectiveLists, u \in BOOLEAN}

MergeProjects ==
    {[p \in {"A.tsx"} |-> SourceFile(<<>>, <<JSXElement("TextInput", a)>>)] :
       a \in AttrLists}

(***************************************************************************)
(* State machine                                                           *)
(***************************************************************************)
InitCommon ==
    /\ idx = 1
    /\ pc = "start"
    /\ stats = ZeroStats
    /\ found = {}
    /\ analysis = ZeroAnalysis
    /\ runs = 1
    /\ prevDisk = disk
    /\ origDisk = disk

Init ==
    /\ mode \in {"mutate", "analyze"}
    /\ config \in (IF mode = "mutate" THEN MutConfigs ELSE AnaConfigs)
    /\ disk = Project
    /\ files \in FileLists
    /\ InitCommon

(* A configuration file that parses but lacks one of the fields the tool   *)
(* reads.                                                                  *)
RequiredFields(m) ==
    IF m = "mutate" THEN {"components", "packages", "props", "fileExtensions"}
    ELSE {"packagesToTrack", "componentFilters", "priorityThresholds",
          "fileExtensions"}

Without(c, name) == [k \in DOMAIN c \ {name} |-> c[k]]

InitConfig ==
    /\ mode \in {"mutate", "analyze"}
    /\ \E c \in (IF mode = "mutate" THEN MutConfigs ELSE AnaConfigs) :
           \E name \in RequiredFields(mode) : config = Without(c, name)
    /\ disk = Project
    /\ files \in FileLists
    /\ InitCommon

InitMerge ==
    /\ mode = "mutate"
    /\ config \in MergeConfigs
    /\ disk \in MergeProjects
    /\ files = <<"A.tsx">>
    /\ InitCommon

(* main of add-props.js up to the loop: config.fileExtensions.join throws  *)
(* on a missing field, which main's catch block turns into a fatal error;  *)
(* no files found returns at once.                                         *)
MutStart ==
    /\ mode = "mutate"
    /\ pc = "start"
    /\ pc' = IF ~HasField("fileExtensions") THEN "fatal"
             ELSE IF Len(files) = 0 THEN "done" ELSE "loop"
    /\ UNCHANGED <<mode, config, disk, files, idx, stats, found, analysis,
                   runs, prevDisk, origDisk>>

MutProcessFile_AbortsOnError ==
    /\ mode = "mutate"
    /\ pc = "loop"
    /\ idx <= Len(files)
    /\ IF disk[files[idx]].parses
       THEN LET r == MutProcessFileResult(files[idx])
            IN /\ disk' = r.disk
               /\ stats' = r.stats
               /\ found' = r.found
               /\ idx' = idx + 1
               /\ pc' = pc
       ELSE /\ pc' = "fatal"
            /\ UNCHANGED <<disk, stats, found, idx>>
    /\ UNCHANGED <<mode, config, files, analysis, runs, prevDisk, origDisk>>

(* One iteration of main's loop: processFile(file).                        *)
MutProcessFile ==
    /\ mode = "mutate"
    /\ pc = "loop"
    /\ idx <= Len(files)
    /\ LET r == MutProcessFileResult(files[idx])
       IN /\ disk' = r.disk
          /\ stats' = r.stats
          /\ found' = r.found
    /\ idx' = idx + 1
    /\ UNCHANGED <<mode, config, files, pc, analysis, runs, prevDisk, origDisk>>

MutGenerateReport ==
    /\ mode = "mutate"
    /\ pc = "loop"
    /\ idx > Len(files)
    /\ pc' = "reported"
    /\ UNCHANGED <<mode, config, disk, files, idx, stats, found, analysis,
                   runs, prevDisk, origDisk>>

(* The script is run again on the project it left on disk: a new process,  *)
(* so the module-level state is initialised afresh.                        *)
MutRunAgain ==
    /\ mode = "mutate"
    /\ pc \in {"done", "reported"}
    /\ runs < MaxRuns
    /\ runs' = runs + 1
    /\ prevDisk' = disk
    /\ stats' = ZeroStats
    /\ found' = {}
    /\ idx' = 1
    /\ pc' = "start"
    /\ UNCHANGED <<mode, config, disk, files, analysis, origDisk>>

AnaStart ==
    /\ mode = "analyze"
    /\ pc = "start"
    /\ pc' = IF ~HasField("fileExtensions") THEN "fatal"
             ELSE IF Len(files) = 0 THEN "done" ELSE "loop"
    /\ UNCHANGED <<mode, config, disk, files, idx, stats, found, analysis,
                   runs, prevDisk, origDisk>>

AnaProcessFile ==
    /\ mode = "analyze"
    /\ pc = "loop"
    /\ idx <= Len(files)
    /\ analysis' = AnaProcessFileResult(files[idx])
    /\ idx' = idx + 1
    /\ UNCHANGED <<mode, config, disk, files, pc, stats, found, runs,
                   prevDisk, origDisk>>

(* After the loop: the summary, then generateHTMLReport computes every     *)
(* component's migrationPriority before the reports are written.  With no  *)
(* priorityThresholds getMigrationPriority throws on the first component   *)
(* and main's catch block ends the process.                                *)
AnaReport ==
    /\ mode = "analyze"
    /\ pc = "loop"
    /\ idx > Len(files)
    /\ LET summed ==
             [analysis EXCEPT
                !.summary.totalComponents = Cardinality(DOMAIN analysis.components),
                !.summary.totalUsages =
                    SumValues([n \in DOMAIN analysis.components |->
                                 analysis.components[n].totalUsages],
                              DOMAIN analysis.components)]
       IN IF DOMAIN analysis.components # {} /\ ~HasField("priorityThresholds")
          THEN /\ analysis' = summed
               /\ pc' = "fatal"
          ELSE /\ analysis' =
                    [summed EXCEPT
                       !.components =
                           [n \in DOMAIN analysis.components |->
                              [analysis.components[n] EXCEPT
                                 !.migrationPriority =
                                     getMigrationPriority(
                                       analysis.components[n].totalUsages)]]]
               /\ pc' = "reported"
    /\ UNCHANGED <<mode, config, disk, files, idx, stats, found, runs,
                   prevDisk, origDisk>>

NextMut == MutStart \/ MutProcessFile \/ MutGenerateReport \/ MutRunAgain

NextAna == AnaStart \/ AnaProcessFile \/ AnaReport

Next == NextMut \/ NextAna

Spec == Init /\ [][Next]_vars

SpecConfig == InitConfig /\ [][Next]_vars

SpecMerge == InitMerge /\ [][NextMut]_vars

(***************************************************************************)
(* Vocabulary of the properties, read off the source text of the project   *)
(* rather than off the scripts' own tables.                                *)
(***************************************************************************)
(* The files the current run has got through without a parse error.        *)
Processed == {files[k] : k \in {j \in 1..(idx - 1) : origDisk[files[j]].parses}}

ElementIndexes(f) == 1..Len(origDisk[f].elements)

TagOf(f, i) == origDisk[f].elements[i].name

IsBuiltIn(n) == ToLowerCase(n) \in HTML_ELEMENTS

(* n is bound in file f by a named import from a module equal to a member  *)
(* of pkgs / containing a member of pkgs.                                  *)
ExactlyBound(f, n, pkgs) ==
    \E d \in 1..Len(origDisk[f].imports) :
        /\ \E p \in 1..Len(pkgs) : origDisk[f].imports[d].source = pkgs[p]
        /\ \E k \in 1..Len(origDisk[f].imports[d].specifiers) :
               /\ origDisk[f].imports[d].specifiers[k].type = "ImportSpecifier"
               /\ origDisk[f].imports[d].specifiers[k].local = n

SubstringBound(f, n, pkgs) ==
    \E d \in 1..Len(origDisk[f].imports) :
        /\ \E p \in 1..Len(pkgs) :
               StringIncludes(origDisk[f].imports[d].source, pkgs[p])
        /\ \E k \in 1..Len(origDisk[f].imports[d].specifiers) :
               /\ origDisk[f].imports[d].specifiers[k].type = "ImportSpecifier"
               /\ origDisk[f].imports[d].specifiers[k].local = n

PassesFilters(n) ==
    /\ Len(config.componentFilters.include) > 0
         => Includes(config.componentFilters.include, n)
    /\ ~Includes(config.componentFilters.exclude, n)

(* The elements of file f the analyzer is to count for the name n.         *)
Sightings(n, f) ==
    {i \in ElementIndexes(f) :
       /\ TagOf(f, i) = n
       /\ PassesFilters(n)
       /\ ExactlyBound(f, n, config.packagesToTrack)}

(* What the usage model records for name n, and for n in file f.           *)
RecordedTotal(n) ==
    IF n \in DOMAIN analysis.components
    THEN analysis.components[n].totalUsages ELSE 0

RecordedInFile(n, f) ==
    IF n \in DOMAIN analysis.components /\ f \in DOMAIN analysis.components[n].files
    THEN analysis.components[n].files[f] ELSE 0

RECURSIVE SumOver(_, _)
SumOver(Op(_), S) ==
    IF S = {} THEN 0
    ELSE LET x == CHOOSE y \in S : TRUE
         IN Op(x) + SumOver(Op, S \ {x})

Sorted(names) ==
    \A i, j \in 1..Len(names) : i < j => LocaleRank(names[i]) <= LocaleRank(names[j])

TheElement == disk["A.tsx"].elements[1]

(***************************************************************************)
(* C1: merge idempotence with updateExisting = true: a second merge of the *)
(* same directives leaves the element's attribute sequence as the first    *)
(* merge left it.                                                          *)
(***************************************************************************)
C1_IdempotentWithUpdate ==
    (mode = "mutate" /\ config.updateExisting /\ runs = 2 /\ pc = "reported")
        => disk = prevDisk

(***************************************************************************)
(* C2: merge idempotence with updateExisting = false: the second merge     *)
(* skips every directive, adds and updates nothing, reports no change and  *)
(* leaves the attribute sequence as it was.                                *)
(***************************************************************************)
C2_IdempotentWithoutUpdate ==
    (mode = "mutate" /\ ~config.updateExisting /\ runs = 2 /\ pc = "reported")
        => /\ stats.propsAdded = 0
           /\ stats.propsUpdated = 0
           /\ stats.componentsSkipped = Len(config.props)
           /\ stats.filesModified = 0
           /\ disk = prevDisk

(***************************************************************************)
(* C3: sort invariant: when the merge of the one element of the file       *)
(* reported a change, the element's attribute names are in non-decreasing  *)
(* order and no name occurs twice.                                         *)
(***************************************************************************)
C3_SortedWhenChanged ==
    (mode = "mutate" /\ stats.filesModified = 1)
        => /\ Sorted(AttrNames(TheElement.attributes))
           /\ NoRepeat(AttrNames(TheElement.attributes))

C5_BuiltInNeverCounted ==
    mode = "analyze" => \A n \in DOMAIN analysis.components : ~IsBuiltIn(n)

(* C5 as amended: such an element is counted exactly when its name passes  *)
(* the filters and is bound in its file by a named import from a tracked   *)
(* package, and never otherwise.                                           *)
C5_BuiltInCountedOnlyWhenTracked ==
    mode = "analyze" =>
        \A n \in TagNames : IsBuiltIn(n) =>
            /\ \A f \in Processed : RecordedInFile(n, f) = Cardinality(Sightings(n, f))
            /\ \A f \in DOMAIN disk \ Processed : RecordedInFile(n, f) = 0

C5_Witness ==
    /\ mode = "analyze"
    /\ pc = "reported"
    /\ "A.tsx" \in Processed
    /\ RecordedInFile("Button", "A.tsx") = 1
    /\ RecordedInFile("div", "A.tsx") = 0

(***************************************************************************)
(* C6: every element whose tag name is listed in the configured components *)
(* is processed by the props adder, whatever the file imports.             *)
(***************************************************************************)
C6_ListedComponentProcessed ==
    mode = "mutate" =>
        \A f \in Processed : \A i \in ElementIndexes(f) :
            Includes(config.components, TagOf(f, i)) => <<f, i>> \in found

(***************************************************************************)
(* C7: an element that is not a direct-name target is in scope by import   *)
(* provenance only if a named import binds it from a module exactly equal  *)
(* to a tracked module, in both paths (as originally claimed).             *)
(***************************************************************************)
C7_ExactModuleMatchBothPaths ==
    /\ mode = "mutate" =>
           \A e \in found :
               \/ Includes(config.components, TagOf(e[1], e[2]))
               \/ ExactlyBound(e[1], TagOf(e[1], e[2]), config.packages)
    /\ mode = "analyze" =>
           \A n \in DOMAIN analysis.components :
               \A f \in DOMAIN analysis.components[n].files :
                   ExactlyBound(f, n, config.packagesToTrack)

(* C7 as amended: exact equality in the analysis path; in the mutation     *)
(* path the module path need only contain a configured package name.       *)
C7_ExactInAnalysisSubstringInMutation ==
    /\ mode = "mutate" =>
           \A e \in found :
               \/ Includes(config.components, TagOf(e[1], e[2]))
               \/ SubstringBound(e[1], TagOf(e[1], e[2]), config.packages)
    /\ mode = "analyze" =>
           \A n \in DOMAIN analysis.components :
               \A f \in DOMAIN analysis.components[n].files :
                   ExactlyBound(f, n, config.packagesToTrack)

C7_Witness ==
    /\ mode = "analyze"
    /\ pc = "reported"
    /\ "B.tsx" \in Processed
    /\ Includes(config.packagesToTrack, REACT_NAVIGATION)
    /\ PassesFilters("NavigationContainer")
    /\ SubstringBound("B.tsx", "NavigationContainer", config.packagesToTrack)
    /\ RecordedTotal("NavigationContainer") = 0
    /\ RecordedTotal("Input") = 1

(***************************************************************************)
(* C8: provenance match: an element that is not a built-in, not filtered   *)
(* out, and bound in its file by a named import from a module equal to a   *)
(* tracked module is in scope (given the configured props in mutation      *)
(* mode, counted in analysis mode) without being a direct-name target.     *)
(***************************************************************************)
C8_ProvenanceMatchInScope ==
    /\ mode = "mutate" =>
           \A f \in Processed : \A i \in ElementIndexes(f) :
               (~IsBuiltIn(TagOf(f, i)) /\ ExactlyBound(f, TagOf(f, i), config.packages))
                   => /\ <<f, i>> \in found
                      /\ \A d \in 1..Len(config.props) :
                             Includes(AttrNames(disk[f].elements[i].attributes),
                                      config.props[d].name)
    /\ mode = "analyze" =>
           \A f \in Processed : \A i \in ElementIndexes(f) :
               (/\ ~IsBuiltIn(TagOf(f, i))
                /\ PassesFilters(TagOf(f, i))
                /\ ExactlyBound(f, TagOf(f, i), config.packagesToTrack))
                   => RecordedInFile(TagOf(f, i), f) >= 1

C8_Witness ==
    /\ mode = "mutate"
    /\ pc = "reported"
    /\ config.components = <<>>
    /\ Len(config.props) > 0
    /\ "B.tsx" \in Processed
    /\ ExactlyBound("B.tsx", "Card", config.packages)
    /\ <<"B.tsx", 3>> \in found
    /\ Len(disk["B.tsx"].elements[3].attributes) > 0

(***************************************************************************)
(* C9: aggregation exactness: for every component name the record's        *)
(* totalUsages is the number of in-scope sightings over the processed      *)
(* files, its per-file count is the number of sightings in that file, and  *)
(* totalUsages is the sum of the per-file counts.                          *)
(***************************************************************************)
C9_AggregationExact ==
    mode = "analyze" =>
        \A n \in TagNames :
            LET InFile(f) == Cardinality(Sightings(n, f))
                Counted(f) == RecordedInFile(n, f)
            IN /\ RecordedTotal(n) = SumOver(InFile, Processed)
               /\ \A f \in Processed : Counted(f) = InFile(f)
               /\ RecordedTotal(n) = SumOver(Counted, DOMAIN disk)
               /\ n \in DOMAIN analysis.components <=> SumOver(InFile, Processed) > 0

C9_Witness ==
    /\ mode = "analyze"
    /\ pc = "reported"
    /\ Processed = {"A.tsx", "D.tsx"}
    /\ RecordedTotal("TextInput") = 3
    /\ RecordedInFile("TextInput", "A.tsx") = 2
    /\ RecordedInFile("TextInput", "D.tsx") = 1

(***************************************************************************)
(* C10: order independence of aggregation: the final usage model is a      *)
(* function of the set of files and the configuration alone, so it is the  *)
(* same for every order in which the files are processed.                  *)
(***************************************************************************)
FileSet == {files[k] : k \in 1..Len(files)}

ParsedFiles == {f \in FileSet : origDisk[f].parses}

(* The module of the first import declaration of f that binds n among the  *)
(* tracked ones.                                                           *)
FirstTrackedSource(n, f) ==
    LET D == {d \in 1..Len(origDisk[f].imports) :
                ExactlyBound(f, n, <<origDisk[f].imports[d].source>>)
                /\ Includes(config.packagesToTrack, origDisk[f].imports[d].source)}
        d0 == CHOOSE d \in D : \A e \in D : d <= e
    IN origDisk[f].imports[d0].source

ExpectedModel ==
    LET FilesOf(n) == {f \in ParsedFiles : Sightings(n, f) # {}}
        Names == {n \in TagNames : FilesOf(n) # {}}
    IN [n \in Names |->
          LET InFile(f) == Cardinality(Sightings(n, f))
              total == SumOver(InFile, FilesOf(n))
          IN [name |-> n,
              totalUsages |-> total,
              files |-> [f \in FilesOf(n) |-> InFile(f)],
              packages |-> {FirstTrackedSource(n, f) : f \in FilesOf(n)},
              migrationPriority |->
                  IF total >= config.priorityThresholds.high THEN "high"
                  ELSE IF total >= config.priorityThresholds.medium THEN "medium"
                  ELSE "low"]]

C10_OrderIndependent ==
    (mode = "analyze" /\ pc = "reported") => analysis.components = ExpectedModel

C10_Witness ==
    /\ mode = "analyze"
    /\ pc = "reported"
    /\ files = <<"D.tsx", "B.tsx", "A.tsx">>
    /\ "Card" \in DOMAIN analysis.components
    /\ analysis.components["Card"].packages = {KIT, UI_KIT}
    /\ analysis.components["Card"].totalUsages = 2
    /\ analysis.components["TextInput"].migrationPriority = "high"

(***************************************************************************)
(* C11: priority assignment: in the final model every record's priority is *)
(* high when its final totalUsages reaches the high threshold, otherwise   *)
(* medium when it reaches the medium threshold, otherwise low, and that    *)
(* totalUsages is the count over all the files of the run.                 *)
(***************************************************************************)
FinalCount(n) ==
    LET InFile(f) == Cardinality(Sightings(n, f))
    IN SumOver(InFile, ParsedFiles)

C11_PriorityFromFinalTotal ==
    (mode = "analyze" /\ pc = "reported") =>
        \A n \in DOMAIN analysis.components :
            /\ analysis.components[n].totalUsages = FinalCount(n)
            /\ analysis.components[n].migrationPriority =
                   IF FinalCount(n) >= config.priorityThresholds.high THEN "high"
                   ELSE IF FinalCount(n) >= config.priorityThresholds.medium
                        THEN "medium"
                   ELSE "low"

C11_Witness ==
    /\ mode = "analyze"
    /\ pc = "reported"
    /\ config.priorityThresholds = [high |-> 3, medium |-> 2]
    /\ files[Len(files)] = "D.tsx"
    /\ {"TextInput", "Card", "Button"} \subseteq DOMAIN analysis.components
    /\ analysis.components["TextInput"].totalUsages = 3
    /\ analysis.components["TextInput"].migrationPriority = "high"
    /\ analysis.components["Card"].totalUsages = 2
    /\ analysis.components["Card"].migrationPriority = "medium"
    /\ analysis.components["Button"].totalUsages = 1
    /\ analysis.components["Button"].migrationPriority = "low"

(***************************************************************************)
(* C12: priority monotonicity: for the configured thresholds, whatever     *)
(* their order, a smaller usage count never gets a higher priority than a  *)
(* larger one (low < medium < high).                                       *)
(***************************************************************************)
PriorityRank(p) ==
    CASE p = "low" -> 0
      [] p = "medium" -> 1
      [] p = "high" -> 2

C12_PriorityMonotone ==
    mode = "analyze" =>
        /\ \A a, b \in 0..MaxUsage :
               a < b => PriorityRank(getMigrationPriority(a))
                          <= PriorityRank(getMigrationPriority(b))
        /\ pc = "reported" =>
               \A m, n \in DOMAIN analysis.components :
                   analysis.components[m].totalUsages
                       < analysis.components[n].totalUsages
                   => PriorityRank(analysis.components[m].migrationPriority)
                        <= PriorityRank(analysis.components[n].migrationPriority)

C12_Witness ==
    /\ mode = "analyze"
    /\ pc = "reported"
    /\ config.priorityThresholds.medium > config.priorityThresholds.high
    /\ {"TextInput", "Card", "Button"} \subseteq DOMAIN analysis.components
    /\ analysis.components["Button"].totalUsages = 1
    /\ analysis.components["Button"].migrationPriority = "low"
    /\ analysis.components["Card"].totalUsages = 2
    /\ analysis.components["Card"].migrationPriority = "high"
    /\ analysis.components["TextInput"].totalUsages = 3
    /\ analysis.components["TextInput"].migrationPriority = "high"

(***************************************************************************)
(* C13: per-file failure tolerance: a file that fails to parse never       *)
(* aborts the run; every file after it in the list is processed as it      *)
(* would be without it, and the run reaches its final report.              *)
(***************************************************************************)
(* The elements the props adder is to find in scope, by its documentation. *)
InScopeForMutation(f, i) ==
    /\ ~IsBuiltIn(TagOf(f, i))
    /\ \/ Includes(config.components, TagOf(f, i))
       \/ SubstringBound(f, TagOf(f, i), config.packages)

FailedBefore(k) == \E j \in 1..(k - 1) : ~origDisk[files[j]].parses

LaterFilesProcessed ==
    /\ pc \in {"start", "loop", "reported", "done"}
    /\ \A k \in 1..(idx - 1) :
           (origDisk[files[k]].parses /\ FailedBefore(k)) =>
               LET f == files[k]
               IN /\ mode = "mutate" =>
                         /\ \A i \in ElementIndexes(f) :
                                <<f, i>> \in found <=> InScopeForMutation(f, i)
                         /\ stats.filesProcessed = Cardinality(Processed)
                  /\ mode = "analyze" =>
                         /\ f \in DOMAIN analysis.files
                         /\ analysis.summary.totalFiles = Cardinality(Processed)
                         /\ \A n \in TagNames :
                                RecordedInFile(n, f) = Cardinality(Sightings(n, f))

(* A step taken inside the loop goes on to the next file, whether or not   *)
(* the current one failed; after the last file the step is the report.     *)
LoopAdvances ==
    pc = "loop" => IF idx <= Len(files) THEN pc' = "loop" /\ idx' = idx + 1
                   ELSE pc' = "reported"

C13_FailureTolerated ==
    /\ []LaterFilesProcessed
    /\ [][LoopAdvances]_vars

C13_Witness ==
    /\ mode = "mutate"
    /\ pc = "reported"
    /\ files = <<"C.tsx", "A.tsx">>
    /\ stats.errors = <<"C.tsx">>
    /\ stats.filesProcessed = 1
    /\ <<"A.tsx", 1>> \in found

(***************************************************************************)
(* C14: complete accounting of files: when a run has reported, in both     *)
(* modes, every discovered file is in the result model either as processed *)
(* or as an error record naming it, and processed files plus error records *)
(* make the number of discovered files.                                    *)
(***************************************************************************)
(* The result model of the run: stats for the props adder, analysis for    *)
(* the analyzer.                                                           *)
ResultModel == IF mode = "mutate" THEN stats ELSE analysis

ProcessedCount ==
    IF mode = "mutate" THEN stats.filesProcessed
    ELSE analysis.summary.totalFiles

(* The error records the result model holds: its errors list, if it has    *)
(* one.                                                                    *)
ErrorRecords ==
    IF "errors" \in DOMAIN ResultModel THEN ResultModel.errors ELSE <<>>

C14_CompleteAccounting ==
    pc = "reported" =>
        /\ ProcessedCount + Len(ErrorRecords) = Len(files)
        /\ \A k \in 1..Len(files) :
               \/ origDisk[files[k]].parses /\ files[k] \in Processed
               \/ Includes(ErrorRecords, files[k])

(***************************************************************************)
(* Vocabulary of the single-element merge: the element as it was before    *)
(* the first run, the attributes of a given name, the string an attribute  *)
(* value carries, and the directives whose name the element had or lacked. *)
(***************************************************************************)
OriginalElement == origDisk["A.tsx"].elements[1]

AttrsNamed(props, n) == SelectSeq(props, LAMBDA a : AttrName(a) = n)

AttrValueString(prop) ==
    IF prop.value.type = "JSXExpressionContainer"
    THEN prop.value.expression.value
    ELSE prop.value.value

PresentDirectives ==
    {d \in 1..Len(config.props) :
       Len(AttrsNamed(OriginalElement.attributes, config.props[d].name)) > 0}

AbsentDirectives == (1..Len(config.props)) \ PresentDirectives

FirstMergeDone == mode = "mutate" /\ runs = 1 /\ pc = "reported"

(***************************************************************************)
(* C15: update suppressed: with updateExisting = false, a directive whose  *)
(* name the element already has leaves that attribute as it was, adds no   *)
(* attribute of that name and is counted as skipped; when no directive was *)
(* absent, no change is reported and the attribute order is the original.  *)
(***************************************************************************)
C15_UpdateSuppressed ==
    (FirstMergeDone /\ ~config.updateExisting) =>
        /\ \A d \in PresentDirectives :
               AttrsNamed(TheElement.attributes, config.props[d].name)
                   = AttrsNamed(OriginalElement.attributes, config.props[d].name)
        /\ stats.componentsSkipped = Cardinality(PresentDirectives)
        /\ AbsentDirectives = {} =>
               /\ stats.filesModified = 0
               /\ TheElement.attributes = OriginalElement.attributes

(***************************************************************************)
(* C16: update existing: with updateExisting = true, a directive whose     *)
(* name the element already has leaves exactly one attribute of that name, *)
(* carrying the directive's value, and is counted as updated, not added.   *)
(***************************************************************************)
C16_UpdateExisting ==
    (FirstMergeDone /\ config.updateExisting) =>
        /\ \A d \in PresentDirectives :
               LET named == AttrsNamed(TheElement.attributes, config.props[d].name)
               IN /\ Len(named) = 1
                  /\ AttrValueString(named[1]) = config.props[d].value
        /\ stats.propsUpdated = Cardinality(PresentDirectives)
        /\ stats.propsAdded = Cardinality(AbsentDirectives)

(***************************************************************************)
(* C17: insert missing: a directive whose name the element lacks leaves    *)
(* exactly one attribute of that name, carrying the directive's value; it  *)
(* is counted as added and the merge reports a change.                     *)
(***************************************************************************)
C17_InsertMissing ==
    FirstMergeDone =>
        /\ \A d \in AbsentDirectives :
               LET named == AttrsNamed(TheElement.attributes, config.props[d].name)
               IN /\ Len(named) = 1
                  /\ AttrValueString(named[1]) = config.props[d].value
        /\ stats.propsAdded >= Cardinality(AbsentDirectives)
        /\ AbsentDirectives # {} => stats.filesModified = 1

(***************************************************************************)
(* C18: unrelated attributes preserved: a merge never removes an attribute *)
(* and an attribute whose name is not the name of a configured directive   *)
(* keeps its value: each such attribute node occurs as many times after    *)
(* the merge as before it.                                                 *)
(***************************************************************************)
Occurrences(props, a) == Cardinality({i \in 1..Len(props) : props[i] = a})

DirectiveNames == {config.props[d].name : d \in 1..Len(config.props)}

Unrelated(props) ==
    {props[i] : i \in {j \in 1..Len(props) : AttrName(props[j]) \notin DirectiveNames}}

C18_UnrelatedPreserved ==
    mode = "mutate" =>
        /\ \A n \in PropNames :
               Len(AttrsNamed(TheElement.attributes, n))
                   >= Len(AttrsNamed(OriginalElement.attributes, n))
        /\ \A a \in Unrelated(OriginalElement.attributes)
                       \cup Unrelated(TheElement.attributes) :
               Occurrences(TheElement.attributes, a)
                   = Occurrences(OriginalElement.attributes, a)

C18_Witness ==
    /\ FirstMergeDone
    /\ stats.filesModified = 1
    /\ DirectiveNames = {"autoComplete", "maxLength"}
    /\ OriginalElement.attributes
           = <<Attr("placeholder", "10"), Attr("maxLength", "off")>>
    /\ Len(TheElement.attributes) = 4
    /\ Occurrences(TheElement.attributes, Attr("placeholder", "10")) = 1
    /\ Occurrences(TheElement.attributes, Attr("maxLength", "off")) = 1

(***************************************************************************)
(* C19: include filter exclusivity: with a non-empty include filter, a tag *)
(* name outside it has no usage record and no per-file count, even when it *)
(* is imported from a tracked package; an empty include filter excludes    *)
(* nothing: every element bound to a tracked package and not in the        *)
(* exclude filter is counted.                                              *)
(***************************************************************************)
NeverCounted(n) ==
    /\ n \notin DOMAIN analysis.components
    /\ \A f \in DOMAIN analysis.files :
           n \notin DOMAIN analysis.files[f].componentUsage

C19_IncludeExclusive ==
    mode = "analyze" =>
        /\ Len(config.componentFilters.include) > 0 =>
               \A n \in TagNames :
                   ~Includes(config.componentFilters.include, n) => NeverCounted(n)
        /\ Len(config.componentFilters.include) = 0 =>
               \A n \in TagNames : \A f \in Processed :
                   (/\ ~Includes(config.componentFilters.exclude, n)
                    /\ ExactlyBound(f, n, config.packagesToTrack))
                       => RecordedInFile(n, f)
                            = Cardinality({i \in ElementIndexes(f) : TagOf(f, i) = n})

C19_Witness ==
    /\ mode = "analyze"
    /\ pc = "reported"
    /\ config.componentFilters = [include |-> <<"Card", "TextInput">>, exclude |-> <<>>]
    /\ "A.tsx" \in Processed
    /\ ExactlyBound("A.tsx", "Button", config.packagesToTrack)
    /\ NeverCounted("Button")
    /\ RecordedInFile("TextInput", "A.tsx") = 2

(***************************************************************************)
(* C20: exclude filter: a tag name in the exclude filter has no usage      *)
(* record and no per-file count, even when it is imported from a tracked   *)
(* package and is also in the include filter.                              *)
(***************************************************************************)
C20_ExcludeWins ==
    mode = "analyze" =>
        \A n \in TagNames :
            Includes(config.componentFilters.exclude, n) => NeverCounted(n)

C20_Witness ==
    /\ mode = "analyze"
    /\ pc = "reported"
    /\ Includes(config.componentFilters.include, "Card")
    /\ Includes(config.componentFilters.exclude, "Card")
    /\ "D.tsx" \in Processed
    /\ ExactlyBound("D.tsx", "Card", config.packagesToTrack)
    /\ NeverCounted("Card")
    /\ RecordedInFile("TextInput", "D.tsx") = 1

(***************************************************************************)
(* C21: per-file import isolation: an element of file f is found in scope  *)
(* by the props adder only if its name is a configured component or f's    *)
(* own imports bind it to a target package, and is rewritten only if found *)
(* in scope; the analyzer counts a name in f only if f's own imports bind  *)
(* it to a tracked package.  Imports of other files of the run never       *)
(* count.                                                                  *)
(***************************************************************************)
C21_ImportIsolation ==
    /\ mode = "mutate" =>
           \A f \in Processed : \A i \in ElementIndexes(f) :
               /\ <<f, i>> \in found =>
                      \/ Includes(config.components, TagOf(f, i))
                      \/ SubstringBound(f, TagOf(f, i), config.packages)
               /\ <<f, i>> \notin found =>
                      disk[f].elements[i] = origDisk[f].elements[i]
    /\ mode = "analyze" =>
           \A f \in DOMAIN analysis.files : \A n \in TagNames :
               (\/ RecordedInFile(n, f) > 0
                \/ n \in DOMAIN analysis.files[f].componentUsage)
                   => ExactlyBound(f, n, config.packagesToTrack)

C21_Witness ==
    /\ mode = "mutate"
    /\ pc = "reported"
    /\ config.components = <<>>
    /\ config.packages = <<REACT_NATIVE>>
    /\ Len(config.props) > 0
    /\ files = <<"A.tsx", "B.tsx">>
    /\ <<"A.tsx", 1>> \in found
    /\ TagOf("B.tsx", 4) = "TextInput"
    /\ <<"B.tsx", 4>> \notin found
    /\ disk["A.tsx"] # origDisk["A.tsx"]
    /\ disk["B.tsx"] = origDisk["B.tsx"]

(***************************************************************************)
(* C22: default and namespace imports are not tracked: a tag name that a   *)
(* file binds to a tracked module only by a default or a namespace import  *)
(* is never found in scope by provenance (mutation) and never counted      *)
(* (analysis); the analyzer's import tables hold only local names of named *)
(* import specifiers.                                                      *)
(***************************************************************************)
(* n is bound in f by a specifier that is not a named one.                 *)
UnnamedBound(f, n) ==
    \E d \in 1..Len(origDisk[f].imports) :
        \E k \in 1..Len(origDisk[f].imports[d].specifiers) :
            /\ origDisk[f].imports[d].specifiers[k].type # "ImportSpecifier"
            /\ origDisk[f].imports[d].specifiers[k].local = n

(* n is bound in some declaration of f from module source as named import. *)
NamedFrom(f, n, source) ==
    \E d \in 1..Len(origDisk[f].imports) :
        /\ origDisk[f].imports[d].source = source
        /\ \E k \in 1..Len(origDisk[f].imports[d].specifiers) :
               /\ origDisk[f].imports[d].specifiers[k].type = "ImportSpecifier"
               /\ origDisk[f].imports[d].specifiers[k].local = n

C22_OnlyNamedImportsTracked ==
    /\ mode = "mutate" =>
           \A f \in Processed : \A i \in ElementIndexes(f) :
               (/\ UnnamedBound(f, TagOf(f, i))
                /\ ~SubstringBound(f, TagOf(f, i), config.packages)
                /\ ~Includes(config.components, TagOf(f, i)))
                   => /\ <<f, i>> \notin found
                      /\ disk[f].elements[i] = origDisk[f].elements[i]
    /\ mode = "analyze" =>
           /\ \A f \in Processed : \A n \in TagNames :
                  (UnnamedBound(f, n) /\ ~ExactlyBound(f, n, config.packagesToTrack))
                      => RecordedInFile(n, f) = 0
           /\ \A f \in DOMAIN analysis.files :
                  \A e \in 1..Len(analysis.files[f].imports) :
                      \A c \in 1..Len(analysis.files[f].imports[e].components) :
                          NamedFrom(f, analysis.files[f].imports[e].components[c],
                                    analysis.files[f].imports[e].source)
           /\ \A source \in DOMAIN analysis.imports :
                  \A c \in 1..Len(analysis.imports[source]) :
                      \E f \in Processed :
                          NamedFrom(f, analysis.imports[source][c], source)

C22_Witness ==
    /\ mode = "analyze"
    /\ pc = "reported"
    /\ config.componentFilters = NoFilters
    /\ Includes(config.packagesToTrack, REACT_NATIVE)
    /\ Includes(config.packagesToTrack, KIT)
    /\ "D.tsx" \in Processed
    /\ UnnamedBound("D.tsx", "Modal")
    /\ UnnamedBound("D.tsx", "Icons")
    /\ "Modal" \notin DOMAIN analysis.components
    /\ "Icons" \notin DOMAIN analysis.components
    /\ RecordedInFile("TextInput", "D.tsx") = 1

(***************************************************************************)
(* C23: classification determinism: the classification an element got when *)
(* its file was processed is the one the classifier gives for the same tag *)
(* name, import table of the file and configuration when evaluated again   *)
(* in any later state of the run, whatever the statistics or the usage     *)
(* model hold by then.                                                     *)
(***************************************************************************)
(* The analyzer's classification of name n under import table fileImports. *)
CountedByAnalyzer(n, fileImports) ==
    /\ PassesFilters(n)
    /\ \E i \in 1..Len(fileImports) : Includes(fileImports[i].components, n)

C23_ClassificationDeterministic ==
    /\ mode = "mutate" =>
           \A f \in Processed : \A i \in ElementIndexes(f) :
               <<f, i>> \in found
                   <=> shouldProcessComponent(TagOf(f, i),
                                              CollectImports(origDisk[f].imports, 1))
    /\ mode = "analyze" =>
           \A f \in DOMAIN analysis.files : \A n \in TagNames :
               RecordedInFile(n, f)
                   = IF CountedByAnalyzer(n, analysis.files[f].imports)
                     THEN Cardinality({i \in ElementIndexes(f) : TagOf(f, i) = n})
                     ELSE 0

C23_Witness ==
    /\ mode = "mutate"
    /\ pc = "reported"
    /\ files = <<"D.tsx", "B.tsx", "A.tsx">>
    /\ stats.componentsFound >= 4
    /\ stats.propsAdded > 0
    /\ <<"A.tsx", 1>> \in found
    /\ <<"A.tsx", 4>> \in found
    /\ <<"A.tsx", 3>> \notin found
    /\ <<"D.tsx", 2>> \in found

(***************************************************************************)
(* C24: fatal configuration errors: with a configuration that lacks a      *)
(* required field the run is aborted before any file is attempted: the     *)
(* walk over the file list never starts and no per-file error is recorded. *)
(***************************************************************************)
ConfigInvalid == RequiredFields(mode) \ DOMAIN config # {}

C24_InvalidConfigAbortsFirst ==
    ConfigInvalid => (idx = 1 /\ stats.errors = <<>>)

(***************************************************************************)
(* C25: file modification tracking: a processed file is rewritten and      *)
(* counted in filesModified exactly when the merge reports a change for at *)
(* least one of its elements; every other file is left as it was, and      *)
(* filesModified never exceeds filesProcessed.                             *)
(***************************************************************************)
(* The merge of element i of f, as the file stood when the run began,      *)
(* reports a change.                                                       *)
MergeReportsChange(f, i) ==
    addPropsToComponent(prevDisk[f].elements[i],
                        CollectImports(prevDisk[f].imports, 1),
                        ZeroStats).hasChanges

FileChanged(f) == \E i \in ElementIndexes(f) : MergeReportsChange(f, i)

C25_ModifiedIffMergeChanged ==
    mode = "mutate" =>
        /\ \A f \in Processed : disk[f] # prevDisk[f] <=> FileChanged(f)
        /\ \A f \in DOMAIN disk \ Processed : disk[f] = prevDisk[f]
        /\ stats.filesModified = Cardinality({f \in Processed : FileChanged(f)})
        /\ stats.filesModified <= stats.filesProcessed

C25_Witness ==
    /\ mode = "mutate"
    /\ pc = "reported"
    /\ runs = 1
    /\ files = <<"B.tsx", "D.tsx">>
    /\ Len(config.props) > 0
    /\ disk["B.tsx"] = prevDisk["B.tsx"]
    /\ disk["D.tsx"] # prevDisk["D.tsx"]
    /\ stats.filesProcessed = 2
    /\ stats.filesModified = 1

(***************************************************************************)
(* C26: value kind of merged attributes: after the merge an attribute      *)
(* synthesized for a directive whose name the element lacked has a plain   *)
(* string literal as its value, and the attributes under a directive name  *)
(* the element already had have the value kind they had before.            *)
(***************************************************************************)
ValueKinds(props, n) ==
    {AttrsNamed(props, n)[k].value.type : k \in 1..Len(AttrsNamed(props, n))}

C26_ValueKindKept ==
    FirstMergeDone =>
        /\ \A d \in AbsentDirectives :
               ValueKinds(TheElement.attributes, config.props[d].name)
                   = {"StringLiteral"}
        /\ \A d \in PresentDirectives :
               ValueKinds(TheElement.attributes, config.props[d].name)
                   = ValueKinds(OriginalElement.attributes, config.props[d].name)

(***************************************************************************)
(* C27: source-module provenance of usage records: in every state of an    *)
(* analysis run each module in a record's packages set is a tracked        *)
(* package from which a processed file with a counted sighting of the      *)
(* component imports the name as a named import, and every file with a     *)
(* counted sighting has contributed the module of its first import         *)
(* declaration binding the name.                                           *)
(***************************************************************************)
C27_PackagesProvenance ==
    mode = "analyze" =>
        \A n \in DOMAIN analysis.components :
            /\ \A source \in analysis.components[n].packages :
                   /\ Includes(config.packagesToTrack, source)
                   /\ \E f \in Processed :
                          /\ RecordedInFile(n, f) >= 1
                          /\ NamedFrom(f, n, source)
            /\ \A f \in Processed :
                   RecordedInFile(n, f) >= 1
                       => FirstTrackedSource(n, f) \in analysis.components[n].packages

C27_Witness ==
    /\ mode = "analyze"
    /\ pc = "loop"
    /\ files = <<"D.tsx", "B.tsx", "A.tsx">>
    /\ idx = 3
    /\ {"Card", "TextInput"} \subseteq DOMAIN analysis.components
    /\ analysis.components["Card"].packages = {UI_KIT, KIT}
    /\ analysis.components["TextInput"].packages = {REACT_NATIVE}
    /\ RecordedInFile("TextInput", "D.tsx") = 1

(***************************************************************************)
(* C28: state unchanged on parse failure: the step that attempts a file    *)
(* that does not parse leaves the analysis model as it was, writes no file *)
(* and changes none of the counters of the props adder; only its error     *)
(* list grows.                                                             *)
(***************************************************************************)
AttemptsUnparsable ==
    /\ pc = "loop"
    /\ idx <= Len(files)
    /\ ~disk[files[idx]].parses

ParseFailureLeavesState ==
    AttemptsUnparsable =>
        /\ analysis' = analysis
        /\ disk' = disk
        /\ [stats' EXCEPT !.errors = <<>>] = [stats EXCEPT !.errors = <<>>]
        /\ SubSeq(stats'.errors, 1, Len(stats.errors)) = stats.errors

C28_ParseFailureChangesNothing == [][ParseFailureLeavesState]_vars

C28_Witness ==
    /\ mode = "analyze"
    /\ pc = "loop"
    /\ files = <<"A.tsx", "C.tsx">>
    /\ idx = 3
    /\ DOMAIN analysis.files = {"A.tsx"}
    /\ analysis.summary.totalFiles = 1
    /\ RecordedTotal("TextInput") = 2

(***************************************************************************)
(* C29: summary consistency: in the final report of an analysis run        *)
(* totalComponents is the number of component records, totalUsages is the  *)
(* sum of their totalUsages, which is also the sum of the per-file         *)
(* totalUsages; every record has at least one usage and totalFiles is the  *)
(* number of entries of the per-file table.                                *)
(***************************************************************************)
FileTotal(f) == analysis.files[f].totalUsages

C29_SummaryConsistent ==
    (mode = "analyze" /\ pc = "reported") =>
        /\ analysis.summary.totalComponents = Cardinality(DOMAIN analysis.components)
        /\ analysis.summary.totalUsages
               = SumOver(RecordedTotal, DOMAIN analysis.components)
        /\ SumOver(RecordedTotal, DOMAIN analysis.components)
               = SumOver(FileTotal, DOMAIN analysis.files)
        /\ \A n \in DOMAIN analysis.components :
               analysis.components[n].totalUsages >= 1
        /\ analysis.summary.totalFiles = Cardinality(DOMAIN analysis.files)

C29_Witness ==
    /\ mode = "analyze"
    /\ pc = "reported"
    /\ DOMAIN analysis.files = {"A.tsx", "B.tsx", "D.tsx"}
    /\ analysis.summary.totalFiles = 3
    /\ analysis.summary.totalComponents = 4
    /\ analysis.summary.totalUsages = 7
    /\ FileTotal("A.tsx") = 3

(***************************************************************************)
(* C30: mutation counter identity: propsAdded + propsUpdated +             *)
(* componentsSkipped is componentsFound times the number of configured     *)
(* directives, componentsFound is the number of elements found in scope in *)
(* this run, and elements out of scope or built in change no counter.      *)
(***************************************************************************)
C30_CounterIdentity ==
    mode = "mutate" =>
        /\ stats.propsAdded + stats.propsUpdated + stats.componentsSkipped
               = stats.componentsFound * Len(config.props)
        /\ stats.componentsFound = Cardinality(found)
        /\ \A e \in found : ~IsBuiltIn(TagOf(e[1], e[2]))

C30_Witness ==
    /\ mode = "mutate"
    /\ pc = "reported"
    /\ runs = 1
    /\ files = <<"A.tsx">>
    /\ Len(config.props) = 2
    /\ found = {<<"A.tsx", 1>>, <<"A.tsx", 4>>}
    /\ stats.componentsFound = 2
    /\ stats.propsAdded + stats.propsUpdated + stats.componentsSkipped = 4
    /\ stats.errors = <<>>

====
